---- MODULE Spec2Model ----
(***************************************************************************)
(* gctk (G-code Toolkit), src/main.rs: get_xy_extent, translate and mirror *)
(* over a parsed program (lines -> commands -> arguments), as run by main. *)
(*                                                                         *)
(* Argument values are f32 in the source.  The model works on integer      *)
(* values and rounds every arithmetic result to the nearest f32            *)
(* (24-bit significand, ties to even), which is exact for integers.        *)
(***************************************************************************)
EXTENDS Integers, Sequences, FiniteSets, TLC

VARIABLES
    args,              \* main: the parsed command line (args.command)
    input,             \* the program as parsed from stdin (never written)
    lines,             \* main: `lines`, mutated in place by translate/mirror
    k,                 \* position of the (line, command) iteration
    min_x, min_y, max_x, max_y,   \* get_xy_extent: Option<f32> accumulators
    position,          \* get_xy_extent: Point3 accumulator
    positioning_mode,  \* get_xy_extent: PositioningMode
    result,            \* the operation's return value, Running until it returns
    stdout,            \* what main has printed
    call               \* 1 for the first call on the program, 2 for a re-application

vars == <<args, input, lines, k, min_x, min_y, max_x, max_y, position,
          positioning_mode, result, stdout, call>>

---------------------------------------------------------------------------
(* Bounds of the model *)

MaxLines == 3

---------------------------------------------------------------------------
(* f32 arithmetic on integer values *)

MantissaBits == 24

Abs(n) == IF n < 0 THEN -n ELSE n

RECURSIVE UlpFrom(_, _)
UlpFrom(m, u) == IF m < (2 ^ MantissaBits) * u THEN u ELSE UlpFrom(m, 2 * u)

\* The f32 nearest to the integer n, ties to even.
F32(n) ==
    LET m == Abs(n)
        u == UlpFrom(m, 1)
        q == m \div u
        r == m % u
        up == (2 * r > u) \/ (2 * r = u /\ q % 2 = 1)
        mag == (IF up THEN q + 1 ELSE q) * u
    IN  IF n < 0 THEN -mag ELSE mag

---------------------------------------------------------------------------
(* Data model: gcode::Line / GCode / Word, Option, Result *)

None == <<>>
Some(v) == <<v>>
IsSome(o) == o # <<>>
Unwrap(o) == o[1]

Word(l, v) == [letter |-> l, value |-> v]
GCode(m, n, a) == [mnemonic |-> m, number |-> n, arguments |-> a]
G(n, a) == GCode("General", n, a)
M(n, a) == GCode("Miscellaneous", n, a)

major_number(command) == command.number

to_ascii_uppercase(l) ==
    CASE l = "x" -> "X"
      [] l = "y" -> "Y"
      [] l = "z" -> "Z"
      [] l = "i" -> "I"
      [] l = "j" -> "J"
      [] OTHER -> l

\* GCode::value_for: the value of the first argument whose letter matches,
\* ignoring case.
value_for(command, letter) ==
    LET a == command.arguments
        hits == {i \in 1..Len(a) : to_ascii_uppercase(a[i].letter) = letter}
    IN  IF hits = {} THEN None
        ELSE Some(a[CHOOSE i \in hits : \A j \in hits : i <= j].value)

Point3(x, y, z) == [x |-> x, y |-> y, z |-> z]
zero == Point3(0, 0, 0)

Running == [kind |-> "Running"]
Ok(v) == [kind |-> "Ok", value |-> v]
UnsupportedCommand(c) == [kind |-> "UnsupportedCommand", command |-> c]
EmptyExtent == [kind |-> "EmptyExtent"]
UnknownPosition(n) == [kind |-> "UnknownPosition", line |-> n]
Extent(a, b, c, d) == [min_x |-> a, min_y |-> b, max_x |-> c, max_y |-> d]

\* The (line, command) pairs in the order the nested for loops visit them.
RECURSIVE VisitFrom(_, _)
VisitFrom(ls, i) ==
    IF i > Len(ls) THEN <<>>
    ELSE [j \in 1..Len(ls[i]) |-> <<i, j>>] \o VisitFrom(ls, i + 1)

Visits(ls) == VisitFrom(ls, 1)

CommandAt(ls, n) == ls[Visits(ls)[n][1]][Visits(ls)[n][2]]

---------------------------------------------------------------------------
(* get_xy_extent *)

ExtentAccepted == {0, 1, 4, 21, 64, 90, 91, 94}

\* extent_min with the Absolute comparison copied from the max match.
extent_min_copied_from_max(mode, v, mn, pos) ==
    CASE mode = "Absolute" /\ IsSome(mn) ->
            [err |-> FALSE, bound |-> IF v > Unwrap(mn) THEN Some(v) ELSE mn, pos |-> pos]
      [] mode = "Relative" /\ IsSome(mn) ->
            LET p == F32(pos + v)
            IN  [err |-> FALSE, bound |-> IF p < Unwrap(mn) THEN Some(p) ELSE mn, pos |-> p]
      [] mode = "Absolute" /\ ~IsSome(mn) ->
            [err |-> FALSE, bound |-> Some(v), pos |-> pos]
      [] mode = "Relative" /\ ~IsSome(mn) ->
            [err |-> TRUE, bound |-> mn, pos |-> pos]

\* The match on (positioning_mode, min) for one axis argument v.
extent_min(mode, v, mn, pos) ==
    CASE mode = "Absolute" /\ IsSome(mn) ->
            [err |-> FALSE, bound |-> IF v < Unwrap(mn) THEN Some(v) ELSE mn, pos |-> pos]
      [] mode = "Relative" /\ IsSome(mn) ->
            LET p == F32(pos + v)
            IN  [err |-> FALSE, bound |-> IF p < Unwrap(mn) THEN Some(p) ELSE mn, pos |-> p]
      [] mode = "Absolute" /\ ~IsSome(mn) ->
            [err |-> FALSE, bound |-> Some(v), pos |-> pos]
      [] mode = "Relative" /\ ~IsSome(mn) ->
            [err |-> TRUE, bound |-> mn, pos |-> pos]

\* extent_max with the Absolute arms recording the coordinate in position.
extent_max_tracks_absolute(mode, v, mx, pos) ==
    CASE mode = "Absolute" /\ IsSome(mx) ->
            [err |-> FALSE, bound |-> IF v > Unwrap(mx) THEN Some(v) ELSE mx, pos |-> v]
      [] mode = "Relative" /\ IsSome(mx) ->
            LET p == F32(pos + v)
            IN  [err |-> FALSE, bound |-> IF p > Unwrap(mx) THEN Some(p) ELSE mx, pos |-> p]
      [] mode = "Absolute" /\ ~IsSome(mx) ->
            [err |-> FALSE, bound |-> Some(v), pos |-> v]
      [] mode = "Relative" /\ ~IsSome(mx) ->
            [err |-> TRUE, bound |-> mx, pos |-> pos]

\* extent_max with the (Relative, Some) arm assigning the new coordinate
\* without comparing it.
extent_max_overwrites(mode, v, mx, pos) ==
    CASE mode = "Absolute" /\ IsSome(mx) ->
            [err |-> FALSE, bound |-> IF v > Unwrap(mx) THEN Some(v) ELSE mx, pos |-> pos]
      [] mode = "Relative" /\ IsSome(mx) ->
            [err |-> FALSE, bound |-> Some(F32(pos + v)), pos |-> F32(pos + v)]
      [] mode = "Absolute" /\ ~IsSome(mx) ->
            [err |-> FALSE, bound |-> Some(v), pos |-> pos]
      [] mode = "Relative" /\ ~IsSome(mx) ->
            [err |-> TRUE, bound |-> mx, pos |-> pos]

\* The match on (positioning_mode, max) for one axis argument v.
extent_max(mode, v, mx, pos) ==
    CASE mode = "Absolute" /\ IsSome(mx) ->
            [err |-> FALSE, bound |-> IF v > Unwrap(mx) THEN Some(v) ELSE mx, pos |-> pos]
      [] mode = "Relative" /\ IsSome(mx) ->
            LET p == F32(pos + v)
            IN  [err |-> FALSE, bound |-> IF p > Unwrap(mx) THEN Some(p) ELSE mx, pos |-> p]
      [] mode = "Absolute" /\ ~IsSome(mx) ->
            [err |-> FALSE, bound |-> Some(v), pos |-> pos]
      [] mode = "Relative" /\ ~IsSome(mx) ->
            [err |-> TRUE, bound |-> mx, pos |-> pos]

\* `if let Some(v) = command.value_for(..) { match min ..; match max .. }`
extent_axis(mode, arg, mn, mx, pos) ==
    IF ~IsSome(arg) THEN [err |-> FALSE, min |-> mn, max |-> mx, pos |-> pos]
    ELSE LET a == extent_min(mode, Unwrap(arg), mn, pos)
         IN  IF a.err THEN [err |-> TRUE, min |-> mn, max |-> mx, pos |-> pos]
             ELSE LET b == extent_max(mode, Unwrap(arg), mx, a.pos)
                  IN  [err |-> b.err, min |-> a.bound, max |-> b.bound, pos |-> b.pos]

Traversing(c) ==
    /\ args.command = c
    /\ result = Running
    /\ k <= Len(Visits(lines))

Returning(c) ==
    /\ args.command = c
    /\ result = Running
    /\ k > Len(Visits(lines))

\* line_idx taken from an enumeration of the commands instead of the lines.
line_idx_counts_commands == k - 1

line_idx == Visits(lines)[k][1] - 1

ExtentState == <<min_x, min_y, max_x, max_y, position, positioning_mode>>

\* .filter(|c| c.mnemonic == Mnemonic::General)
ExtentSkip ==
    /\ Traversing("GetExtent")
    /\ CommandAt(lines, k).mnemonic # "General"
    /\ k' = k + 1
    /\ UNCHANGED <<args, input, lines, ExtentState, result, stdout, call>>

\* 0 | 1 => { X ...; Y ... }
ExtentMove ==
    /\ Traversing("GetExtent")
    /\ LET command == CommandAt(lines, k)
           x == extent_axis(positioning_mode, value_for(command, "X"),
                            min_x, max_x, position.x)
           y == extent_axis(positioning_mode, value_for(command, "Y"),
                            min_y, max_y, position.y)
       IN  /\ command.mnemonic = "General"
           /\ major_number(command) \in {0, 1}
           /\ min_x' = x.min
           /\ max_x' = x.max
           /\ IF x.err
                THEN /\ position' = [position EXCEPT !.x = x.pos]
                     /\ result' = UnknownPosition(line_idx + 1)
                     /\ UNCHANGED <<k, min_y, max_y>>
                ELSE /\ min_y' = y.min
                     /\ max_y' = y.max
                     /\ position' = [position EXCEPT !.x = x.pos, !.y = y.pos]
                     /\ IF y.err
                          THEN /\ result' = UnknownPosition(line_idx + 1)
                               /\ UNCHANGED k
                          ELSE /\ k' = k + 1
                               /\ UNCHANGED result
    /\ UNCHANGED <<args, input, lines, positioning_mode, stdout, call>>

\* ExtentMode with `90 => ()`: only G91 is acted upon.
ExtentMode_ignores_90 ==
    /\ Traversing("GetExtent")
    /\ LET command == CommandAt(lines, k)
       IN  /\ command.mnemonic = "General"
           /\ major_number(command) \in {90, 91}
           /\ positioning_mode' =
                 IF major_number(command) = 91 THEN "Relative" ELSE positioning_mode
    /\ k' = k + 1
    /\ UNCHANGED <<args, input, lines, min_x, min_y, max_x, max_y, position,
                   result, stdout, call>>

\* 90 => Absolute, 91 => Relative
ExtentMode ==
    /\ Traversing("GetExtent")
    /\ LET command == CommandAt(lines, k)
       IN  /\ command.mnemonic = "General"
           /\ major_number(command) \in {90, 91}
           /\ positioning_mode' =
                 IF major_number(command) = 90 THEN "Absolute" ELSE "Relative"
    /\ k' = k + 1
    /\ UNCHANGED <<args, input, lines, min_x, min_y, max_x, max_y, position,
                   result, stdout, call>>

\* 4 | 21 | 64 | 94 => ()
ExtentNoop ==
    /\ Traversing("GetExtent")
    /\ CommandAt(lines, k).mnemonic = "General"
    /\ major_number(CommandAt(lines, k)) \in {4, 21, 64, 94}
    /\ k' = k + 1
    /\ UNCHANGED <<args, input, lines, ExtentState, result, stdout, call>>

\* _ => return Err(UnsupportedCommand(command.clone()))
ExtentUnsupported ==
    /\ Traversing("GetExtent")
    /\ CommandAt(lines, k).mnemonic = "General"
    /\ major_number(CommandAt(lines, k)) \notin ExtentAccepted
    /\ result' = UnsupportedCommand(CommandAt(lines, k))
    /\ UNCHANGED <<args, input, lines, k, ExtentState, stdout, call>>

\* ExtentReturn with unwrap_or_default() in place of ok_or(EmptyExtent)?.
ExtentReturn_defaults ==
    /\ Returning("GetExtent")
    /\ LET d(o) == IF IsSome(o) THEN Unwrap(o) ELSE 0
       IN  /\ result' = Ok(Extent(d(min_x), d(min_y), d(max_x), d(max_y)))
           /\ stdout' = Append(stdout, Extent(d(min_x), d(min_y), d(max_x), d(max_y)))
    /\ UNCHANGED <<args, input, lines, k, ExtentState, call>>

\* Ok(Extent { min_x: min_x.ok_or(EmptyExtent)?, .. }), and main's println
ExtentReturn ==
    /\ Returning("GetExtent")
    /\ IF IsSome(min_x) /\ IsSome(min_y) /\ IsSome(max_x) /\ IsSome(max_y)
         THEN /\ result' = Ok(Extent(Unwrap(min_x), Unwrap(min_y),
                                     Unwrap(max_x), Unwrap(max_y)))
              /\ stdout' = Append(stdout, Extent(Unwrap(min_x), Unwrap(min_y),
                                                 Unwrap(max_x), Unwrap(max_y)))
         ELSE /\ result' = EmptyExtent
              /\ UNCHANGED stdout
    /\ UNCHANGED <<args, input, lines, k, ExtentState, call>>

---------------------------------------------------------------------------
(* translate *)

TranslateAccepted == {0, 1, 2, 4, 21, 64, 90, 91, 94}

\* translate_argument with `=` in place of `+=`.
translate_argument_assigns(argument, offset) ==
    LET l == to_ascii_uppercase(argument.letter)
    IN  CASE l = "X" -> [argument EXCEPT !.value = offset.x]
          [] l = "Y" -> [argument EXCEPT !.value = offset.y]
          [] l = "Z" -> [argument EXCEPT !.value = offset.z]
          [] OTHER -> argument

\* translate_argument that also shifts the arc centre offsets I and J.
translate_argument_shifts_centre(argument, offset) ==
    LET l == to_ascii_uppercase(argument.letter)
    IN  CASE l \in {"X", "I"} -> [argument EXCEPT !.value = F32(@ + offset.x)]
          [] l \in {"Y", "J"} -> [argument EXCEPT !.value = F32(@ + offset.y)]
          [] l = "Z" -> [argument EXCEPT !.value = F32(@ + offset.z)]
          [] OTHER -> argument

\* match argument.letter.to_ascii_uppercase() { 'X' => value += offset.x, .. }
translate_argument(argument, offset) ==
    LET l == to_ascii_uppercase(argument.letter)
    IN  CASE l = "X" -> [argument EXCEPT !.value = F32(@ + offset.x)]
          [] l = "Y" -> [argument EXCEPT !.value = F32(@ + offset.y)]
          [] l = "Z" -> [argument EXCEPT !.value = F32(@ + offset.z)]
          [] OTHER -> argument

\* for argument in command.arguments.iter_mut() { .. }
translate_command(command, offset) ==
    [command EXCEPT !.arguments =
        [i \in 1..Len(@) |-> translate_argument(@[i], offset)]]

\* main: Commands::Translate { x, y, z } => translate(&mut lines, &Point3 { x, y, z })
translate_offset == Point3(args.x, args.y, args.z)

Replaced(ls, n, command) ==
    [ls EXCEPT ![Visits(ls)[n][1]][Visits(ls)[n][2]] = command]

print_lines(ls) == [n \in 1..Len(Visits(ls)) |-> CommandAt(ls, n)]

TranslateSkip ==
    /\ Traversing("Translate")
    /\ CommandAt(lines, k).mnemonic # "General"
    /\ k' = k + 1
    /\ UNCHANGED <<args, input, lines, ExtentState, result, stdout, call>>

\* 0 | 1 | 2 => { .. }
TranslateMove ==
    /\ Traversing("Translate")
    /\ CommandAt(lines, k).mnemonic = "General"
    /\ major_number(CommandAt(lines, k)) \in {0, 1, 2}
    /\ lines' = Replaced(lines, k, translate_command(CommandAt(lines, k), translate_offset))
    /\ k' = k + 1
    /\ UNCHANGED <<args, input, ExtentState, result, stdout, call>>

\* 4 | 21 | 64 | 90 | 91 | 94 => ()
TranslateNoop ==
    /\ Traversing("Translate")
    /\ CommandAt(lines, k).mnemonic = "General"
    /\ major_number(CommandAt(lines, k)) \in {4, 21, 64, 90, 91, 94}
    /\ k' = k + 1
    /\ UNCHANGED <<args, input, lines, ExtentState, result, stdout, call>>

\* TranslateUnsupported with main printing the lines before it looks at the
\* result.
TranslateUnsupported_prints ==
    /\ Traversing("Translate")
    /\ CommandAt(lines, k).mnemonic = "General"
    /\ major_number(CommandAt(lines, k)) \notin TranslateAccepted
    /\ result' = UnsupportedCommand(CommandAt(lines, k))
    /\ stdout' = stdout \o print_lines(lines)
    /\ UNCHANGED <<args, input, lines, k, ExtentState, call>>

\* TranslateUnsupported with the error kept aside until the loop has run
\* over the remaining commands.
TranslateUnsupported_deferred ==
    /\ Traversing("Translate")
    /\ CommandAt(lines, k).mnemonic = "General"
    /\ major_number(CommandAt(lines, k)) \notin TranslateAccepted
    /\ result' = UnsupportedCommand(CommandAt(lines, k))
    /\ LET at == Visits(lines)[k]
           later(l, c) == l > at[1] \/ (l = at[1] /\ c > at[2])
           moved(command) ==
               IF command.mnemonic = "General" /\ major_number(command) \in {0, 1, 2}
                 THEN translate_command(command, translate_offset)
                 ELSE command
       IN  lines' = [l \in 1..Len(lines) |->
                        [c \in 1..Len(lines[l]) |->
                            IF later(l, c) THEN moved(lines[l][c]) ELSE lines[l][c]]]
    /\ UNCHANGED <<args, input, k, ExtentState, stdout, call>>

\* _ => return Err(UnsupportedCommand(command.clone()))
TranslateUnsupported ==
    /\ Traversing("Translate")
    /\ CommandAt(lines, k).mnemonic = "General"
    /\ major_number(CommandAt(lines, k)) \notin TranslateAccepted
    /\ result' = UnsupportedCommand(CommandAt(lines, k))
    /\ UNCHANGED <<args, input, lines, k, ExtentState, stdout, call>>

\* Ok(()), and main's print_lines(&lines)
TranslateReturn ==
    /\ Returning("Translate")
    /\ result' = Ok(<<>>)
    /\ stdout' = stdout \o print_lines(lines)
    /\ UNCHANGED <<args, input, lines, k, ExtentState, call>>

---------------------------------------------------------------------------
(* mirror *)

MirrorAccepted == {0, 1, 2, 4, 21, 64, 90, 91, 94}

\* impl From<&MirrorAxis> for char
axis_letter(axis) ==
    CASE axis = "X" -> "X"
      [] axis = "Y" -> "Y"
      [] axis = "Z" -> "Z"

\* reflect with the sign of the argument slipped.
reflect_sign_slip(argument, value) ==
    [argument EXCEPT !.value = F32(F32(2 * value) + @)]

\* reflect about the line at half its coordinate: value - argument.value.
reflect_without_doubling(argument, value) ==
    [argument EXCEPT !.value = F32(value - @)]

\* argument.value = 2. * value - argument.value
reflect(argument, value) ==
    [argument EXCEPT !.value = F32(F32(2 * value) - @)]

\* argument.value *= -1.
negate(argument) == [argument EXCEPT !.value = F32(@ * (-1))]

\* mirror_arc with the centre offsets of the claim: J about X, I about Y.
mirror_arc_perpendicular(argument, axis, value) ==
    CASE argument.letter = axis_letter(axis) -> reflect(argument, value)
      [] \/ (argument.letter = "J" /\ axis = "X")
         \/ (argument.letter = "I" /\ axis = "Y") -> negate(argument)
      [] OTHER -> argument

\* 0 | 1: if argument.letter == (&axis).into() { reflect }
mirror_linear(argument, axis, value) ==
    IF argument.letter = axis_letter(axis) THEN reflect(argument, value)
    ELSE argument

\* 2: match (argument.letter, &axis) { .. }
mirror_arc(argument, axis, value) ==
    CASE argument.letter = axis_letter(axis) -> reflect(argument, value)
      [] \/ (argument.letter = "I" /\ axis = "X")
         \/ (argument.letter = "J" /\ axis = "Y") -> negate(argument)
      [] OTHER -> argument

\* mirror_relative without the test on the letter.
mirror_relative_any_letter(argument, axis) == negate(argument)

\* 91: if argument.letter == (&axis).into() { negate }
mirror_relative(argument, axis) ==
    IF argument.letter = axis_letter(axis) THEN negate(argument)
    ELSE argument

\* main: match (mirror_axis.x, mirror_axis.y, mirror_axis.z) { .. }
mirror_call ==
    CASE IsSome(args.mirror_axis.x) -> [axis |-> "X", value |-> Unwrap(args.mirror_axis.x)]
      [] IsSome(args.mirror_axis.y) -> [axis |-> "Y", value |-> Unwrap(args.mirror_axis.y)]
      [] IsSome(args.mirror_axis.z) -> [axis |-> "Z", value |-> Unwrap(args.mirror_axis.z)]

MirrorSkip ==
    /\ Traversing("Mirror")
    /\ CommandAt(lines, k).mnemonic # "General"
    /\ k' = k + 1
    /\ UNCHANGED <<args, input, lines, ExtentState, result, stdout, call>>

\* 0 | 1 => { .. }
MirrorLinear ==
    /\ Traversing("Mirror")
    /\ LET command == CommandAt(lines, k)
       IN  /\ command.mnemonic = "General"
           /\ major_number(command) \in {0, 1}
           /\ lines' = Replaced(lines, k,
                 [command EXCEPT !.arguments =
                     [i \in 1..Len(@) |->
                         mirror_linear(@[i], mirror_call.axis, mirror_call.value)]])
    /\ k' = k + 1
    /\ UNCHANGED <<args, input, ExtentState, result, stdout, call>>

\* 2 => { .. }
MirrorArc ==
    /\ Traversing("Mirror")
    /\ LET command == CommandAt(lines, k)
       IN  /\ command.mnemonic = "General"
           /\ major_number(command) = 2
           /\ lines' = Replaced(lines, k,
                 [command EXCEPT !.arguments =
                     [i \in 1..Len(@) |->
                         mirror_arc(@[i], mirror_call.axis, mirror_call.value)]])
    /\ k' = k + 1
    /\ UNCHANGED <<args, input, ExtentState, result, stdout, call>>

\* 91 => { .. }
MirrorRelative ==
    /\ Traversing("Mirror")
    /\ LET command == CommandAt(lines, k)
       IN  /\ command.mnemonic = "General"
           /\ major_number(command) = 91
           /\ lines' = Replaced(lines, k,
                 [command EXCEPT !.arguments =
                     [i \in 1..Len(@) |-> mirror_relative(@[i], mirror_call.axis)]])
    /\ k' = k + 1
    /\ UNCHANGED <<args, input, ExtentState, result, stdout, call>>

\* 4 | 21 | 64 | 90 | 94 => ()
MirrorNoop ==
    /\ Traversing("Mirror")
    /\ CommandAt(lines, k).mnemonic = "General"
    /\ major_number(CommandAt(lines, k)) \in {4, 21, 64, 90, 94}
    /\ k' = k + 1
    /\ UNCHANGED <<args, input, lines, ExtentState, result, stdout, call>>

\* MirrorUnsupported that passes over the command instead of returning.
MirrorUnsupported_skips ==
    /\ Traversing("Mirror")
    /\ CommandAt(lines, k).mnemonic = "General"
    /\ major_number(CommandAt(lines, k)) \notin MirrorAccepted
    /\ k' = k + 1
    /\ UNCHANGED <<args, input, lines, ExtentState, result, stdout, call>>

\* _ => return Err(UnsupportedCommand(command.clone()))
MirrorUnsupported ==
    /\ Traversing("Mirror")
    /\ CommandAt(lines, k).mnemonic = "General"
    /\ major_number(CommandAt(lines, k)) \notin MirrorAccepted
    /\ result' = UnsupportedCommand(CommandAt(lines, k))
    /\ UNCHANGED <<args, input, lines, k, ExtentState, stdout, call>>

\* Ok(()), and main's print_lines(&lines)
MirrorReturn ==
    /\ Returning("Mirror")
    /\ result' = Ok(<<>>)
    /\ stdout' = stdout \o print_lines(lines)
    /\ UNCHANGED <<args, input, lines, k, ExtentState, call>>

---------------------------------------------------------------------------
(* Inputs: the programs read from stdin and the command lines *)

Big == 2 ^ 25

LineSet ==
    { <<G(90, <<>>)>>,
      <<G(91, <<>>), G(1, <<Word("X", 2), Word("Y", -3)>>)>>,
      <<G(91, <<Word("X", 2), Word("Y", -3)>>)>>,
      <<G(0, <<Word("X", -3)>>)>>,
      <<G(1, <<Word("X", 2), Word("Y", 2), Word("Z", -3)>>)>>,
      <<G(1, <<Word("X", 2), Word("X", -3), Word("y", -3)>>)>>,
      <<G(2, <<Word("X", 2), Word("Y", -3), Word("I", 2), Word("J", -3)>>)>>,
      <<G(17, <<Word("X", 2)>>)>>,
      <<G(4, <<Word("X", 2)>>), M(17, <<Word("X", 2)>>), G(21, <<>>),
        G(64, <<>>), G(94, <<>>)>> }

\* G90 G1 X10 Y5 / G91 G1 X2 Y-3
RelativeExample ==
    << <<G(90, <<>>), G(1, <<Word("X", 10), Word("Y", 5)>>)>>,
       <<G(91, <<>>), G(1, <<Word("X", 2), Word("Y", -3)>>)>> >>

\* G90 / G1 X0 Y0 / G1 X10 Y0 / G1 X10 Y5 / G1 X0 Y5
RectangleExample ==
    << <<G(90, <<>>)>>,
       <<G(1, <<Word("X", 0), Word("Y", 0)>>)>>,
       <<G(1, <<Word("X", 10), Word("Y", 0)>>)>>,
       <<G(1, <<Word("X", 10), Word("Y", 5)>>)>>,
       <<G(1, <<Word("X", 0), Word("Y", 5)>>)>> >>

\* G91 G1 X1
UnknownExample == << <<G(91, <<>>), G(1, <<Word("X", 1)>>)>> >>

Programs ==
    UNION {[1..n -> LineSet] : n \in 0..MaxLines}
        \cup {RelativeExample, RectangleExample, UnknownExample}

Offsets == {Point3(1, -2, 3), Point3(Big, 0, -Big)}

\* The mirror lines, as (x, y, z) options of which exactly one is given.
MirrorLines ==
    {Point3(Some(5), None, None), Point3(Some(Big), None, None),
     Point3(None, Some(5), None), Point3(None, None, Some(5))}

\* clap: enum Commands, with exactly one of mirror's x, y, z given
Commands ==
    {[command |-> "GetExtent"]}
        \cup {[command |-> "Translate", x |-> o.x, y |-> o.y, z |-> o.z] : o \in Offsets}
        \cup {[command |-> "Mirror", mirror_axis |-> a] : a \in MirrorLines}

---------------------------------------------------------------------------
(* The program *)

Init ==
    /\ args \in Commands
    /\ input \in Programs
    /\ lines = input
    /\ k = 1
    /\ min_x = None
    /\ min_y = None
    /\ max_x = None
    /\ max_y = None
    /\ position = zero
    /\ positioning_mode = "Absolute"
    /\ result = Running
    /\ stdout = <<>>
    /\ call = 1

Next ==
    \/ ExtentSkip
    \/ ExtentMove
    \/ ExtentMode
    \/ ExtentNoop
    \/ ExtentUnsupported
    \/ ExtentReturn
    \/ TranslateSkip
    \/ TranslateMove
    \/ TranslateNoop
    \/ TranslateUnsupported
    \/ TranslateReturn
    \/ MirrorSkip
    \/ MirrorLinear
    \/ MirrorArc
    \/ MirrorRelative
    \/ MirrorNoop
    \/ MirrorUnsupported
    \/ MirrorReturn

Spec == Init /\ [][Next]_vars

\* A second call on the transformed program: translate by the negated offset,
\* mirror about the same line.
Reapply ==
    /\ call = 1
    /\ result.kind = "Ok"
    /\ args.command \in {"Translate", "Mirror"}
    /\ args' = IF args.command = "Translate"
                 THEN [args EXCEPT !.x = -args.x, !.y = -args.y, !.z = -args.z]
                 ELSE args
    /\ call' = 2
    /\ k' = 1
    /\ result' = Running
    /\ UNCHANGED <<input, lines, ExtentState, stdout>>

NextTwice ==
    \/ TranslateSkip
    \/ TranslateMove
    \/ TranslateNoop
    \/ TranslateUnsupported
    \/ TranslateReturn
    \/ MirrorSkip
    \/ MirrorLinear
    \/ MirrorArc
    \/ MirrorRelative
    \/ MirrorNoop
    \/ MirrorUnsupported
    \/ MirrorReturn
    \/ Reapply

InitTwice ==
    /\ Init
    /\ args.command \in {"Translate", "Mirror"}

SpecTwice == InitTwice /\ [][NextTwice]_vars

---------------------------------------------------------------------------
(* Vocabulary of the properties, read off the parsed input *)

NumCommands == Len(Visits(input))
InCmd(n) == CommandAt(input, n)
OutCmd(n) == CommandAt(lines, n)
LineOf(n) == Visits(input)[n][1]
Done == result.kind # "Running"

IsGeneral(c) == c.mnemonic = "General"
IsLinear(c) == IsGeneral(c) /\ c.number \in {0, 1}

\* Letter l is the letter L (upper case), in either case.
LowerCase == [X |-> "x", Y |-> "y", Z |-> "z", I |-> "i", J |-> "j"]
LetterIs(l, L) == l = L \/ l = LowerCase[L]

\* The arguments of c with letter L: their indices, values, and the first value.
IndicesOf(c, L) ==
    {i \in 1..Len(c.arguments) : LetterIs(c.arguments[i].letter, L)}
ValuesOf(c, L) == {c.arguments[i].value : i \in IndicesOf(c, L)}
Carries(c, L) == IndicesOf(c, L) # {}
FirstOf(c, L) == c.arguments[CHOOSE i \in IndicesOf(c, L) :
                                \A j \in IndicesOf(c, L) : i <= j].value

SetMin(S) == CHOOSE x \in S : \A y \in S : x <= y
SetMax(S) == CHOOSE x \in S : \A y \in S : x >= y

\* The positioning mode in force when command n is reached: Relative exactly
\* when the last G90/G91 before it is a G91.
ModeAt(n) ==
    LET sw == {m \in 1..(n - 1) : IsGeneral(InCmd(m)) /\ InCmd(m).number \in {90, 91}}
    IN  IF sw # {} /\ InCmd(SetMax(sw)).number = 91 THEN "Relative" ELSE "Absolute"

\* The coordinates reached on axis L by the linear moves 1..n, resolving each
\* relative move against the last coordinate reached on that axis.
RECURSIVE ReachedOn(_, _)
ReachedOn(L, n) ==
    IF n = 0 THEN <<>>
    ELSE LET before == ReachedOn(L, n - 1)
             c == InCmd(n)
         IN  IF IsLinear(c) /\ Carries(c, L)
               THEN IF ModeAt(n) = "Relative" /\ before # <<>>
                      THEN Append(before, before[Len(before)] + FirstOf(c, L))
                      ELSE Append(before, FirstOf(c, L))
               ELSE before

Range(f) == {f[i] : i \in DOMAIN f}

\* Command n is a linear move in Relative mode with an X (or Y) argument and
\* no earlier linear move carries an argument for that axis.
Unresolvable(n) ==
    /\ IsLinear(InCmd(n))
    /\ ModeAt(n) = "Relative"
    /\ \E L \in {"X", "Y"} :
          /\ Carries(InCmd(n), L)
          /\ ~\E m \in 1..(n - 1) : IsLinear(InCmd(m)) /\ Carries(InCmd(m), L)

Representable(n) == F32(n) = n

AllValuesRestored ==
    \A n \in 1..NumCommands : \A i \in 1..Len(InCmd(n).arguments) :
        OutCmd(n).arguments[i].value = InCmd(n).arguments[i].value

---------------------------------------------------------------------------
(* C1: get_xy_extent resolves relative moves against the last known         *)
(* absolute position: G90 G1 X10 Y5 / G91 G1 X2 Y-3 gives min_x = 10,       *)
(* max_x = 12, min_y = 2, max_y = 5; in general every returned bound is the *)
(* minimum / maximum of the coordinates reached, a relative X (Y) argument  *)
(* v reaching (last coordinate reached on that axis) + v.                   *)
C1_RelativeResolution ==
    (args.command = "GetExtent" /\ result.kind = "Ok") =>
        /\ input = RelativeExample => result.value = Extent(10, 2, 12, 5)
        /\ result.value = Extent(SetMin(Range(ReachedOn("X", NumCommands))),
                                 SetMin(Range(ReachedOn("Y", NumCommands))),
                                 SetMax(Range(ReachedOn("X", NumCommands))),
                                 SetMax(Range(ReachedOn("Y", NumCommands))))

\* The relative example runs to completion (and returns other bounds).
C1_ExampleReturns ==
    /\ args.command = "GetExtent"
    /\ input = RelativeExample
    /\ result = Ok(Extent(2, -3, 10, 5))

---------------------------------------------------------------------------
(* C2: absolute-mode extents *)

\* The General commands are only G0/G1 (and G90), so every move is executed
\* in Absolute mode, and some move carries X and some move carries Y.
AbsoluteOnly ==
    /\ \A n \in 1..NumCommands :
          IsGeneral(InCmd(n)) => InCmd(n).number \in {0, 1, 90}
    /\ \E n \in 1..NumCommands : IsLinear(InCmd(n)) /\ Carries(InCmd(n), "X")
    /\ \E n \in 1..NumCommands : IsLinear(InCmd(n)) /\ Carries(InCmd(n), "Y")

AllValues(L) ==
    UNION {ValuesOf(InCmd(n), L) : n \in {m \in 1..NumCommands : IsLinear(InCmd(m))}}

FirstValues(L) ==
    {FirstOf(InCmd(n), L) :
        n \in {m \in 1..NumCommands : IsLinear(InCmd(m)) /\ Carries(InCmd(m), L)}}

\* C2 as claimed: for a program of G0/G1 moves in Absolute mode with an X and
\* a Y argument, get_xy_extent returns the minimum / maximum of all X argument
\* values and of all Y argument values (Z arguments play no part).
C2_AllArgumentValues ==
    (args.command = "GetExtent" /\ AbsoluteOnly /\ Done) =>
        result = Ok(Extent(SetMin(AllValues("X")), SetMin(AllValues("Y")),
                           SetMax(AllValues("X")), SetMax(AllValues("Y"))))

\* C2 as amended: for such a program get_xy_extent returns the minimum /
\* maximum, over the G0/G1 commands, of the first X argument value and of the
\* first Y argument value of each command (value_for reads only the first
\* argument with a letter); Z arguments play no part.
C2_FirstArgumentValues ==
    (args.command = "GetExtent" /\ AbsoluteOnly /\ Done) =>
        result = Ok(Extent(SetMin(FirstValues("X")), SetMin(FirstValues("Y")),
                           SetMax(FirstValues("X")), SetMax(FirstValues("Y"))))

\* The rectangle scenario returns {0, 0, 10, 5}.
C2_RectangleReturned ==
    /\ args.command = "GetExtent"
    /\ input = RectangleExample
    /\ AbsoluteOnly
    /\ result = Ok(Extent(0, 0, 10, 5))

\* A program with Z arguments and differing X values returns its X/Y bounds.
C2_WithZReturned ==
    /\ args.command = "GetExtent"
    /\ AbsoluteOnly
    /\ \E n \in 1..NumCommands : Carries(InCmd(n), "Z")
    /\ result.kind = "Ok"
    /\ result.value.min_x < result.value.max_x

---------------------------------------------------------------------------
(* C3: mirror on arc moves *)

Mirroring == args.command = "Mirror" /\ call = 1

\* Command n is a G2 already visited by mirror.
MirroredArc(n) ==
    /\ n < k
    /\ IsGeneral(InCmd(n))
    /\ InCmd(n).number = 2

ArgNegated(n, i) ==
    OutCmd(n).arguments[i].value = -InCmd(n).arguments[i].value
ArgUnchanged(n, i) ==
    OutCmd(n).arguments[i].value = InCmd(n).arguments[i].value

ArgsWith(n, l) ==
    {i \in 1..Len(InCmd(n).arguments) : InCmd(n).arguments[i].letter = l}

\* C3 as claimed: on a G2, mirroring about X negates J and leaves I, about Y
\* negates I and leaves J, about Z changes neither.
C3_ArcNegatesPerpendicular ==
    Mirroring => \A n \in 1..NumCommands : MirroredArc(n) =>
        /\ mirror_call.axis = "X" =>
              /\ \A i \in ArgsWith(n, "J") : ArgNegated(n, i)
              /\ \A i \in ArgsWith(n, "I") : ArgUnchanged(n, i)
        /\ mirror_call.axis = "Y" =>
              /\ \A i \in ArgsWith(n, "I") : ArgNegated(n, i)
              /\ \A i \in ArgsWith(n, "J") : ArgUnchanged(n, i)
        /\ mirror_call.axis = "Z" =>
              \A i \in ArgsWith(n, "I") \cup ArgsWith(n, "J") : ArgUnchanged(n, i)

\* C3 as amended: on a G2, mirroring about X negates every argument with
\* letter I and leaves J, about Y negates every argument with letter J and
\* leaves I, about Z changes neither.
C3_ArcNegatesParallel ==
    Mirroring => \A n \in 1..NumCommands : MirroredArc(n) =>
        /\ mirror_call.axis = "X" =>
              /\ \A i \in ArgsWith(n, "I") : ArgNegated(n, i)
              /\ \A i \in ArgsWith(n, "J") : ArgUnchanged(n, i)
        /\ mirror_call.axis = "Y" =>
              /\ \A i \in ArgsWith(n, "J") : ArgNegated(n, i)
              /\ \A i \in ArgsWith(n, "I") : ArgUnchanged(n, i)
        /\ mirror_call.axis = "Z" =>
              \A i \in ArgsWith(n, "I") \cup ArgsWith(n, "J") : ArgUnchanged(n, i)

\* mirror about X has returned with the I argument of a G2 negated and its J
\* argument as it was.
C3_ArcMirroredAboutX ==
    /\ Mirroring
    /\ mirror_call.axis = "X"
    /\ result.kind = "Ok"
    /\ \E n \in 1..NumCommands :
          /\ MirroredArc(n)
          /\ \E i \in ArgsWith(n, "I") : ArgNegated(n, i) /\ ~ArgUnchanged(n, i)
          /\ \E i \in ArgsWith(n, "J") : ArgUnchanged(n, i) /\ ~ArgNegated(n, i)

---------------------------------------------------------------------------
(* C4: mirror applied twice *)

MirrorOnceDone == args.command = "Mirror" /\ call = 1 /\ result.kind = "Ok"
MirrorTwiceDone == args.command = "Mirror" /\ call = 2 /\ result.kind = "Ok"

\* The arguments mirror reflects: those with the axis letter on G0/G1/G2.
Reflected(n, i) ==
    /\ IsGeneral(InCmd(n))
    /\ InCmd(n).number \in {0, 1, 2}
    /\ InCmd(n).arguments[i].letter = mirror_call.axis

OffAxisUntouched ==
    \A n \in 1..NumCommands : IsLinear(InCmd(n)) =>
        \A i \in 1..Len(InCmd(n).arguments) :
            InCmd(n).arguments[i].letter # mirror_call.axis =>
                OutCmd(n).arguments[i].value = InCmd(n).arguments[i].value

\* C4 as claimed: for every program, axis and line value, mirror applied
\* twice leaves every argument value equal to its original value, and one
\* application leaves every G0/G1 argument off the mirror axis unchanged.
C4_MirrorInvolution ==
    /\ MirrorTwiceDone => AllValuesRestored
    /\ MirrorOnceDone => OffAxisUntouched

ReflectionsExact ==
    \A n \in 1..NumCommands : \A i \in 1..Len(InCmd(n).arguments) :
        Reflected(n, i) =>
            Representable(2 * mirror_call.value - InCmd(n).arguments[i].value)

\* C4 as amended: whenever every reflected value 2*v - x is exactly
\* representable as an f32, mirror(axis, v) applied twice leaves every
\* argument value equal to its original value; and one application leaves
\* every G0/G1 argument off the mirror axis unchanged.
C4_MirrorInvolutionExact ==
    /\ (MirrorTwiceDone /\ ReflectionsExact) => AllValuesRestored
    /\ MirrorOnceDone => OffAxisUntouched

\* mirror has been applied twice to a program with an argument that the first
\* application moved, and every value is back.
C4_MirroredTwice ==
    /\ MirrorTwiceDone
    /\ ReflectionsExact
    /\ \E n \in 1..NumCommands : \E i \in 1..Len(InCmd(n).arguments) :
          /\ Reflected(n, i)
          /\ 2 * mirror_call.value - InCmd(n).arguments[i].value
                # InCmd(n).arguments[i].value
    /\ \E n \in 1..NumCommands : IsGeneral(InCmd(n)) /\ InCmd(n).number = 91
                                    /\ Carries(InCmd(n), mirror_call.axis)
    /\ AllValuesRestored

---------------------------------------------------------------------------
(* C5: translate round trip *)

TranslateTwiceDone ==
    args.command = "Translate" /\ call = 2 /\ result.kind = "Ok"

\* Integer values small enough that every sum is an exact f32.
Bounded(v) == Abs(v) <= 2 ^ (MantissaBits - 1)

BoundedValues ==
    /\ Bounded(args.x) /\ Bounded(args.y) /\ Bounded(args.z)
    /\ \A n \in 1..NumCommands : \A i \in 1..Len(InCmd(n).arguments) :
          Bounded(InCmd(n).arguments[i].value)

\* C5: over integer values of magnitude at most 2^23, translate by
\* (dx, dy, dz) followed by translate by (-dx, -dy, -dz) restores every
\* argument value of every command.
C5_TranslateRoundTrip ==
    (TranslateTwiceDone /\ BoundedValues) => AllValuesRestored

\* The round trip has run over a program with shifted arguments.
C5_TranslatedBack ==
    /\ TranslateTwiceDone
    /\ BoundedValues
    /\ args.x # 0 /\ args.y # 0 /\ args.z # 0
    /\ \E n \in 1..NumCommands :
          /\ IsLinear(InCmd(n))
          /\ Carries(InCmd(n), "X") /\ Carries(InCmd(n), "Y") /\ Carries(InCmd(n), "Z")
    /\ AllValuesRestored

\* Beyond that magnitude the sums round and the round trip is inexact.
C5_RoundTripUnbounded == TranslateTwiceDone => AllValuesRestored

---------------------------------------------------------------------------
(* C6: unsupported commands *)

\* The accepted major numbers per operation, as the claim lists them.
ClaimedAccepted ==
    IF args.command = "GetExtent" THEN {0, 1, 4, 21, 64, 90, 91, 94}
    ELSE {0, 1, 2, 4, 21, 64, 90, 91, 94}

Offending ==
    {n \in 1..NumCommands :
        IsGeneral(InCmd(n)) /\ InCmd(n).number \notin ClaimedAccepted}

\* C6: if the program holds a General command with a major number outside the
\* operation's accepted set and no other error is raised before it, the
\* traversal never passes the first such command and the operation returns
\* UnsupportedCommand carrying it, wherever in the program it stands.
C6_UnsupportedAborts ==
    (call = 1 /\ Offending # {}) =>
        LET f == SetMin(Offending)
        IN  /\ k <= f
            /\ (Done /\ ~\E n \in 1..(f - 1) : Unresolvable(n)) =>
                   result = UnsupportedCommand(InCmd(f))

Aborted(c) ==
    /\ args.command = c
    /\ Offending # {}
    /\ result = UnsupportedCommand(InCmd(SetMin(Offending)))

\* The unsupported command is the last of at least three commands (mirror).
C6_UnsupportedLast ==
    /\ Aborted("Mirror")
    /\ NumCommands >= 3
    /\ SetMin(Offending) = NumCommands
    /\ lines # input

\* It is the first of at least three commands (get_xy_extent).
C6_UnsupportedFirst ==
    /\ Aborted("GetExtent")
    /\ NumCommands >= 3
    /\ SetMin(Offending) = 1

\* It stands between two other commands (translate).
C6_UnsupportedMiddle ==
    /\ Aborted("Translate")
    /\ NumCommands >= 3
    /\ SetMin(Offending) \in 2..(NumCommands - 1)
    /\ InCmd(SetMin(Offending)).number = 17

---------------------------------------------------------------------------
(* C7: EmptyExtent *)

NoMoveCarries(L) ==
    ~\E n \in 1..NumCommands : IsLinear(InCmd(n)) /\ Carries(InCmd(n), L)

\* C7: when get_xy_extent traverses the whole program without
\* UnsupportedCommand or UnknownPosition, it returns EmptyExtent exactly when
\* no G0/G1 carried an X argument or no G0/G1 carried a Y argument, and
\* otherwise an Extent with all four bounds.
C7_EmptyExtentIff ==
    (/\ args.command = "GetExtent"
     /\ Done
     /\ result.kind \notin {"UnsupportedCommand", "UnknownPosition"}) =>
        /\ result.kind = "EmptyExtent" <=> (NoMoveCarries("X") \/ NoMoveCarries("Y"))
        /\ result.kind # "EmptyExtent" =>
              /\ result.kind = "Ok"
              /\ DOMAIN result.value = {"min_x", "min_y", "max_x", "max_y"}
              /\ stdout = <<result.value>>

\* A program of G90/G4/G21/G64/G94 only returns EmptyExtent.
C7_NoMotionIsEmpty ==
    /\ args.command = "GetExtent"
    /\ result = EmptyExtent
    /\ NumCommands >= 2
    /\ \A n \in 1..NumCommands : InCmd(n).number \in {90, 4, 21, 64, 94}

\* A program that moves in X only returns EmptyExtent.
C7_NoYIsEmpty ==
    /\ args.command = "GetExtent"
    /\ result = EmptyExtent
    /\ ~NoMoveCarries("X")
    /\ NoMoveCarries("Y")

---------------------------------------------------------------------------
(* C8: UnknownPosition *)

\* C8: get_xy_extent never passes a G0/G1 in Relative mode that carries an X
\* (Y) argument when no earlier G0/G1 carried one; it fails on it with
\* UnknownPosition(1-based index of the command's line); G91 G1 X1 fails with
\* UnknownPosition(1).
C8_UnknownPositionLine ==
    args.command = "GetExtent" =>
        /\ \A n \in 1..NumCommands : n < k => ~Unresolvable(n)
        /\ (Done /\ k <= NumCommands /\ Unresolvable(k)) =>
               result = UnknownPosition(LineOf(k))
        /\ (Done /\ input = UnknownExample) => result = UnknownPosition(1)

\* The failing move is the third command and stands on the second line.
C8_UnknownOnSecondLine ==
    /\ args.command = "GetExtent"
    /\ k = 3
    /\ k <= NumCommands
    /\ Unresolvable(k)
    /\ LineOf(k) = 2
    /\ result = UnknownPosition(2)

\* X is known and Y is not: the move still fails.
C8_UnknownYOnly ==
    /\ args.command = "GetExtent"
    /\ result.kind = "UnknownPosition"
    /\ IsSome(min_x)
    /\ ~IsSome(min_y)

---------------------------------------------------------------------------
(* C9: partial results *)

Transforming == args.command \in {"Translate", "Mirror"} /\ call = 1

\* C9 as claimed: when translate or mirror returns UnsupportedCommand every
\* argument value of the program equals its value before the call; when
\* get_xy_extent returns an error no extent is returned.
C9_NothingApplied ==
    /\ (Transforming /\ result.kind = "UnsupportedCommand") => AllValuesRestored
    /\ (args.command = "GetExtent" /\ Done /\ result.kind # "Ok") => stdout = <<>>

\* C9 as amended: when translate or mirror returns UnsupportedCommand, main
\* prints nothing of the program, and the offending command and every command
\* after it are as they were before the call (commands before it have been
\* transformed in place); when get_xy_extent returns an error no extent is
\* returned.
C9_NothingPrinted ==
    /\ (Transforming /\ result.kind = "UnsupportedCommand") =>
          /\ stdout = <<>>
          /\ \A n \in k..NumCommands : OutCmd(n) = InCmd(n)
    /\ (args.command = "GetExtent" /\ Done /\ result.kind # "Ok") => stdout = <<>>

\* translate has failed after it changed an earlier command.
C9_FailedAfterChange ==
    /\ args.command = "Translate"
    /\ result.kind = "UnsupportedCommand"
    /\ ~AllValuesRestored
    /\ stdout = <<>>

---------------------------------------------------------------------------
(* C10: translate *)

Shifted(c, a) ==
    IF IsGeneral(c) /\ c.number \in {0, 1, 2}
      THEN CASE LetterIs(a.letter, "X") -> F32(a.value + args.x)
             [] LetterIs(a.letter, "Y") -> F32(a.value + args.y)
             [] LetterIs(a.letter, "Z") -> F32(a.value + args.z)
             [] OTHER -> a.value
      ELSE a.value

\* C10: on success translate adds offset.x / .y / .z to every X / Y / Z
\* argument of every G0/G1/G2, whatever G90/G91 precedes it, and leaves every
\* other argument, every other command, and the number and order of lines,
\* commands and arguments as they were.
C10_TranslateShifts ==
    (args.command = "Translate" /\ call = 1 /\ result.kind = "Ok") =>
        /\ Len(lines) = Len(input)
        /\ \A l \in 1..Len(input) : Len(lines[l]) = Len(input[l])
        /\ \A n \in 1..NumCommands :
              /\ OutCmd(n).mnemonic = InCmd(n).mnemonic
              /\ OutCmd(n).number = InCmd(n).number
              /\ Len(OutCmd(n).arguments) = Len(InCmd(n).arguments)
              /\ \A i \in 1..Len(InCmd(n).arguments) :
                    /\ OutCmd(n).arguments[i].letter = InCmd(n).arguments[i].letter
                    /\ OutCmd(n).arguments[i].value
                          = Shifted(InCmd(n), InCmd(n).arguments[i])
        /\ stdout = print_lines(lines)

\* translate has returned on a program with a G2 under G91, its X and Y
\* shifted and its I and J as they were.
C10_ArcShiftedUnderG91 ==
    /\ args.command = "Translate"
    /\ call = 1
    /\ result.kind = "Ok"
    /\ \E n \in 1..NumCommands :
          /\ InCmd(n).number = 2
          /\ ModeAt(n) = "Relative"
          /\ \E i \in ArgsWith(n, "X") : ~ArgUnchanged(n, i)
          /\ \E i \in ArgsWith(n, "I") : ArgUnchanged(n, i)
    /\ \E n \in 1..NumCommands : ~IsGeneral(InCmd(n))

---------------------------------------------------------------------------
(* Vocabulary of the steps of get_xy_extent *)

Extenting == args.command = "GetExtent"

\* get_xy_extent processes command k in this step, in the mode the G90/G91
\* before it call for.
Processing(mode) ==
    /\ Extenting
    /\ result.kind = "Running"
    /\ k <= NumCommands
    /\ IsLinear(InCmd(k))
    /\ ModeAt(k) = mode

Lower(o, v) == IF IsSome(o) /\ Unwrap(o) <= v THEN o ELSE Some(v)
Higher(o, v) == IF IsSome(o) /\ Unwrap(o) >= v THEN o ELSE Some(v)

---------------------------------------------------------------------------
(* C11: in get_xy_extent, an X (Y) argument v of a G0/G1 in Relative mode   *)
(* advances position.x (position.y) by exactly v, once, and that one        *)
(* coordinate is compared against both the running minimum and the running  *)
(* maximum of the axis.                                                     *)
C11_RelativeAdvancesOnce ==
    [][(Processing("Relative") /\ k' = k + 1) =>
          /\ Carries(InCmd(k), "X") =>
                /\ position'.x = position.x + FirstOf(InCmd(k), "X")
                /\ min_x' = Lower(min_x, position'.x)
                /\ max_x' = Higher(max_x, position'.x)
          /\ Carries(InCmd(k), "Y") =>
                /\ position'.y = position.y + FirstOf(InCmd(k), "Y")
                /\ min_y' = Lower(min_y, position'.y)
                /\ max_y' = Higher(max_y, position'.y)]_vars

---------------------------------------------------------------------------
(* C12: in get_xy_extent, a G0/G1 processed in Absolute mode uses the value *)
(* read for X and for Y itself as the coordinate compared with the bounds   *)
(* and leaves position unchanged; position changes only while a G0/G1 is    *)
(* processed in Relative mode, and position.z never changes.                *)
C12_AbsoluteLeavesPosition ==
    [][Extenting =>
          /\ position'.z = position.z
          /\ position' # position => Processing("Relative")
          /\ Processing("Absolute") =>
                /\ position' = position
                /\ k' = k + 1
                /\ Carries(InCmd(k), "X") =>
                      /\ min_x' = Lower(min_x, FirstOf(InCmd(k), "X"))
                      /\ max_x' = Higher(max_x, FirstOf(InCmd(k), "X"))
                /\ Carries(InCmd(k), "Y") =>
                      /\ min_y' = Lower(min_y, FirstOf(InCmd(k), "Y"))
                      /\ max_y' = Higher(max_y, FirstOf(InCmd(k), "Y"))]_vars

\* `G1 X2 Y2 Z-3` / `G0 X-3`, both absolute, have been processed.
C12_TwoAbsoluteMoves ==
    /\ Extenting
    /\ k = 3
    /\ InCmd(1) = G(1, <<Word("X", 2), Word("Y", 2), Word("Z", -3)>>)
    /\ InCmd(2) = G(0, <<Word("X", -3)>>)
    /\ min_x = Some(-3)
    /\ max_x = Some(2)
    /\ min_y = Some(2)
    /\ position = zero

---------------------------------------------------------------------------
ModeSwitchAt(n) ==
    n <= NumCommands /\ IsGeneral(InCmd(n)) /\ InCmd(n).number \in {90, 91}
ExtentNoopAt(n) ==
    n <= NumCommands /\ IsGeneral(InCmd(n)) /\ InCmd(n).number \in {4, 21, 64, 94}

(* C13: in get_xy_extent the positioning mode starts as Absolute and is, at *)
(* every point of the traversal, Relative exactly when the last G90/G91     *)
(* processed so far was a G91; only a G90/G91 changes it, and G4, G21, G64, *)
(* G94 change neither the mode, the position nor the bounds.                *)
C13_ModeFollowsLastSwitch ==
    /\ [](Extenting => positioning_mode = ModeAt(k))
    /\ [][Extenting =>
             /\ positioning_mode' # positioning_mode => ModeSwitchAt(k)
             /\ ExtentNoopAt(k) =>
                   UNCHANGED <<positioning_mode, position,
                               min_x, min_y, max_x, max_y>>]_vars

\* A G4 has been passed in Relative mode and a later G90 has restored
\* Absolute mode.
C13_BackToAbsolute ==
    /\ Extenting
    /\ positioning_mode = "Absolute"
    /\ \E m, n \in 1..NumCommands :
          /\ m < n
          /\ n < k
          /\ ModeAt(m) = "Relative"
          /\ ExtentNoopAt(m)
          /\ IsGeneral(InCmd(n))
          /\ InCmd(n).number = 90

---------------------------------------------------------------------------
\* min and max of one axis are both unset, or both set with min <= max.
Paired(mn, mx) ==
    /\ IsSome(mn) <=> IsSome(mx)
    /\ IsSome(mn) => Unwrap(mn) <= Unwrap(mx)

\* From one processed command to the next a set bound stays set, a minimum
\* (dir = -1) does not increase and a maximum (dir = 1) does not decrease.
Widens(old, new, dir) ==
    IsSome(old) => IsSome(new) /\ dir * Unwrap(new) >= dir * Unwrap(old)

(* C14: throughout a get_xy_extent traversal, for each of the axes X and Y, *)
(* the minimum and the maximum are both unset or both set; once set the     *)
(* minimum never increases and the maximum never decreases from one         *)
(* processed command to the next; and minimum <= maximum holds in every     *)
(* reachable state and in every returned Extent.                            *)
C14_BoundsPairedAndMonotonic ==
    /\ [](Extenting =>
             /\ Paired(min_x, max_x)
             /\ Paired(min_y, max_y)
             /\ result.kind = "Ok" =>
                   /\ result.value.min_x <= result.value.max_x
                   /\ result.value.min_y <= result.value.max_y)
    /\ [][Extenting =>
             /\ Widens(min_x, min_x', -1)
             /\ Widens(max_x, max_x', 1)
             /\ Widens(min_y, min_y', -1)
             /\ Widens(max_y, max_y', 1)]_vars

\* An Extent has been returned after relative moves widened both axes.
C14_WidenedByRelativeMove ==
    /\ Extenting
    /\ result.kind = "Ok"
    /\ position.x # 0
    /\ position.y # 0
    /\ result.value.min_x < result.value.max_x
    /\ result.value.min_y < result.value.max_y

---------------------------------------------------------------------------
\* Command n is one mirror accepts without acting on it, or is not General.
MirrorPassesOver(n) ==
    \/ ~IsGeneral(InCmd(n))
    \/ InCmd(n).number \in {4, 21, 64, 90, 94}

(* C15: when mirror(axis, lineValue) succeeds, every argument bearing the   *)
(* axis letter on a G0, G1 or G2 has its value v replaced by                *)
(* 2 * lineValue - v (in f32), whatever G90/G91 precede it, and every       *)
(* argument of G4, G21, G64, G90, G94 and of non-General commands is        *)
(* unchanged.                                                               *)
C15_MirrorReflectsAxisLetter ==
    MirrorOnceDone => \A n \in 1..NumCommands :
        /\ \A i \in 1..Len(InCmd(n).arguments) : Reflected(n, i) =>
              OutCmd(n).arguments[i].value =
                  F32(F32(2 * mirror_call.value) - InCmd(n).arguments[i].value)
        /\ MirrorPassesOver(n) => OutCmd(n) = InCmd(n)

\* mirror about X = 5 has succeeded on a program with a G1 X2 after a G91
\* (now X8) and a G4 X2 (still X2).
C15_MirroredUnderG91 ==
    /\ MirrorOnceDone
    /\ mirror_call = [axis |-> "X", value |-> 5]
    /\ \E n, m \in 1..NumCommands :
          /\ ModeAt(n) = "Relative"
          /\ InCmd(n) = G(1, <<Word("X", 2), Word("Y", -3)>>)
          /\ OutCmd(n) = G(1, <<Word("X", 8), Word("Y", -3)>>)
          /\ InCmd(m) = G(4, <<Word("X", 2)>>)
          /\ OutCmd(m) = InCmd(m)

---------------------------------------------------------------------------
\* Command n is a G91 already visited by mirror.
MirroredG91(n) ==
    /\ n < k
    /\ IsGeneral(InCmd(n))
    /\ InCmd(n).number = 91

(* C16: mirror on a G91 replaces the value v of every argument bearing the  *)
(* axis letter by -v, whatever lineValue is, and leaves every other         *)
(* argument of that command unchanged.                                      *)
C16_G91ArgumentsNegated ==
    Mirroring => \A n \in 1..NumCommands : MirroredG91(n) =>
        /\ Len(OutCmd(n).arguments) = Len(InCmd(n).arguments)
        /\ \A i \in 1..Len(InCmd(n).arguments) :
              IF InCmd(n).arguments[i].letter = mirror_call.axis
                THEN /\ ArgNegated(n, i)
                     /\ OutCmd(n).arguments[i].letter = mirror_call.axis
                ELSE OutCmd(n).arguments[i] = InCmd(n).arguments[i]

\* mirror about Y = 5 has passed `G91 X2 Y-3`, which now reads X2 Y3.
C16_G91NegatedAboutY ==
    /\ Mirroring
    /\ mirror_call = [axis |-> "Y", value |-> 5]
    /\ \E n \in 1..NumCommands :
          /\ n < k
          /\ InCmd(n) = G(91, <<Word("X", 2), Word("Y", -3)>>)
          /\ OutCmd(n) = G(91, <<Word("X", 2), Word("Y", 3)>>)

---------------------------------------------------------------------------
\* The other-case form of a letter, of an argument and of a command.
OtherCase(l) ==
    CASE l \in DOMAIN LowerCase -> LowerCase[l]
      [] \E L \in DOMAIN LowerCase : LowerCase[L] = l ->
            CHOOSE L \in DOMAIN LowerCase : LowerCase[L] = l
      [] OTHER -> l
InOtherCase(argument) == [argument EXCEPT !.letter = OtherCase(@)]
CommandInOtherCase(c) ==
    [c EXCEPT !.arguments = [i \in 1..Len(@) |-> InOtherCase(@[i])]]

\* What translate and mirror write for an argument of General command c.
TranslateWrites(c, argument) ==
    IF c.number \in {0, 1, 2} THEN translate_argument(argument, translate_offset)
    ELSE argument
MirrorWrites(c, argument) ==
    CASE c.number \in {0, 1} ->
            mirror_linear(argument, mirror_call.axis, mirror_call.value)
      [] c.number = 2 -> mirror_arc(argument, mirror_call.axis, mirror_call.value)
      [] c.number = 91 -> mirror_relative(argument, mirror_call.axis)
      [] OTHER -> argument

(* C17: argument letters are case-insensitive in every operation: the value *)
(* translate and mirror leave in an argument is the value they write when   *)
(* its letter is replaced by the other-case form, and get_xy_extent reads   *)
(* the same X and Y from a command and from its other-case form.            *)
C17_LettersCaseInsensitive ==
    call = 1 => \A n \in 1..NumCommands : (n < k /\ IsGeneral(InCmd(n))) =>
        /\ args.command = "Translate" =>
              \A i \in 1..Len(InCmd(n).arguments) :
                 OutCmd(n).arguments[i].value =
                    TranslateWrites(InCmd(n), InOtherCase(InCmd(n).arguments[i])).value
        /\ args.command = "Mirror" =>
              \A i \in 1..Len(InCmd(n).arguments) :
                 OutCmd(n).arguments[i].value =
                    MirrorWrites(InCmd(n), InOtherCase(InCmd(n).arguments[i])).value
        /\ args.command = "GetExtent" =>
              \A L \in {"X", "Y"} :
                 value_for(InCmd(n), L) = value_for(CommandInOtherCase(InCmd(n)), L)

---------------------------------------------------------------------------
(* C18: translate and mirror process the commands in program order, line by *)
(* line and command by command: each step touches only the command it is at *)
(* and moves on by one; when the operation returns UnsupportedCommand the   *)
(* carried command is the first General command in that order with an       *)
(* unaccepted major number, and no command at or after it has been modified.*)
C18_FailFastInOrder ==
    /\ [](Transforming =>
             /\ \A n \in 1..NumCommands : n >= k => OutCmd(n) = InCmd(n)
             /\ \A n \in 1..NumCommands : n < k => n \notin Offending
             /\ result.kind = "UnsupportedCommand" =>
                   /\ k \in Offending
                   /\ result.command = InCmd(k))
    /\ [][Transforming =>
             /\ k' \in {k, k + 1}
             /\ \A n \in 1..NumCommands :
                   n # k => CommandAt(lines', n) = CommandAt(lines, n)]_vars

\* The operation has failed on an unsupported command after changing a
\* command before it and with a G0/G1/G2 still ahead of it.
C18_FailedBeforeLaterMoves ==
    /\ Transforming
    /\ result.kind = "UnsupportedCommand"
    /\ \E m \in 1..NumCommands : m < k /\ OutCmd(m) # InCmd(m)
    /\ \E n \in 1..NumCommands :
          /\ n > k
          /\ IsGeneral(InCmd(n))
          /\ InCmd(n).number \in {0, 1, 2}

====
